---------------------------- MODULE Spec2Model ----------------------------
(***************************************************************************)
(* A model of trillium-prometheus (src/lib.rs): text_format_handler builds *)
(* a Router with one route, GET "metrics", whose handler gathers the       *)
(* registry, encodes the snapshot with the text encoder into a fresh       *)
(* buffer and answers 200 with the buffer, or logs and answers 500.        *)
(*                                                                         *)
(* The registry is a sequence of metric families in the order gather       *)
(* yields them.  A buffer is a sequence of lines, each line a string that  *)
(* stands for the line followed by a newline.  An Option is a sequence of  *)
(* length at most one.                                                     *)
(***************************************************************************)
EXTENDS Integers, Sequences, FiniteSets, TLC

\* ------------------------------------------------------------------ bounds
NumConns == 2        \* connections the hosting server may have in flight
MaxFamilies == 2     \* metric families registered before serving starts

\* --------------------------------------------------------------- constants
Status_Ok == 200
Status_InternalServerError == 500

Conns == 1..NumConns
Methods == {"GET", "POST"}
Paths == {"metrics", "other"}
Values == {0, 5}

None == <<>>
Some(x) == <<x>>

\* The collectors the embedding application may register.  A malformed
\* family is metric state the encoder rejects.
Collectors ==
  { [name |-> "my_gauge", help |-> "Test fixture", type |-> "gauge",
     metric |-> << [label |-> "", value |-> 0] >>, malformed |-> FALSE],
    [name |-> "requests", help |-> "Requests served", type |-> "counter",
     metric |-> << [label |-> "{code=\"200\"}", value |-> 0],
                   [label |-> "{code=\"500\"}", value |-> 0] >>,
     malformed |-> FALSE],
    [name |-> "broken", help |-> "Rejected by the encoder", type |-> "summary",
     metric |-> << [label |-> "", value |-> 0] >>, malformed |-> TRUE] }

VARIABLES
  phase,      \* "setup" until text_format_handler(registry) is called
  registry,   \* the shared registry: the families gather yields, in order
  pc,         \* per connection: idle, unmatched, handler, gathered, done
  request,    \* per connection: the inbound request
  snapshot,   \* per connection: the value of registry.gather()
  conn,       \* per connection: the response under construction
  log,        \* the tracing events recorded
  gathers,    \* per connection: calls of registry.gather()
  encodes     \* per connection: calls of encoder.encode()

vars == <<phase, registry, pc, request, snapshot, conn, log, gathers, encodes>>

\* ------------------------------------------------------------- the encoder
format_type == "text/plain; version=0.0.4"

HelpLine(mf) == "# HELP " \o mf.name \o " " \o mf.help
TypeLine(mf) == "# TYPE " \o mf.name \o " " \o mf.type
SampleLine(mf, m) == mf.name \o m.label \o " " \o ToString(m.value)

FamilyLines(mf) ==
  <<HelpLine(mf), TypeLine(mf)>> \o
  [i \in 1..Len(mf.metric) |-> SampleLine(mf, mf.metric[i])]

\* encoder.encode(&mfs, &mut buffer): the families are written to the buffer
\* one after the other; a rejected family ends the call with Err, and what
\* was written before it stays in the buffer.
RECURSIVE encode(_, _)
encode(mfs, buffer) ==
  IF mfs = <<>> THEN [ok |-> TRUE, buffer |-> buffer, error |-> ""]
  ELSE IF Head(mfs).malformed
       THEN [ok |-> FALSE, buffer |-> buffer,
             error |-> "malformed metric family " \o Head(mfs).name]
       ELSE encode(Tail(mfs), buffer \o FamilyLines(Head(mfs)))

\* registry.gather(): a copy of the families the registry holds.
gather(reg) == reg

\* ------------------------------------------------------------------- Init
NewConn == [status |-> None, headers |-> {}, body |-> None]
NoRequest == [method |-> "", path |-> ""]

Init ==
  /\ phase = "setup"
  /\ registry = <<>>
  /\ pc = [c \in Conns |-> "idle"]
  /\ request = [c \in Conns |-> NoRequest]
  /\ snapshot = [c \in Conns |-> <<>>]
  /\ conn = [c \in Conns |-> NewConn]
  /\ log = <<>>
  /\ gathers = [c \in Conns |-> 0]
  /\ encodes = [c \in Conns |-> 0]

\* ------------------------------------------------ the embedding application
RegisteredNames == {registry[i].name : i \in 1..Len(registry)}

\* registry.register(Box::new(collector))
register(collector) ==
  /\ phase = "setup"
  /\ Len(registry) < MaxFamilies
  /\ collector.name \notin RegisteredNames
  /\ registry' = Append(registry, collector)
  /\ UNCHANGED <<phase, pc, request, snapshot, conn, log, gathers, encodes>>

\* gauge.set(v), by any part of the hosting process, at any time
set(i, v) ==
  /\ i \in 1..Len(registry)
  /\ registry[i].type = "gauge"
  /\ registry[i].metric[1].value # v
  /\ registry' = [registry EXCEPT ![i].metric[1].value = v]
  /\ UNCHANGED <<phase, pc, request, snapshot, conn, log, gathers, encodes>>

\* counter.with_label_values(..).inc_by(v): a counter only grows
inc_by(i, j, v) ==
  /\ i \in 1..Len(registry)
  /\ registry[i].type = "counter"
  /\ j \in 1..Len(registry[i].metric)
  /\ registry[i].metric[j].value + v \in Values
  /\ registry' = [registry EXCEPT ![i].metric[j].value = @ + v]
  /\ UNCHANGED <<phase, pc, request, snapshot, conn, log, gathers, encodes>>

\* let handler = text_format_handler(registry)
text_format_handler ==
  /\ phase = "setup"
  /\ phase' = "serving"
  /\ UNCHANGED <<registry, pc, request, snapshot, conn, log, gathers, encodes>>

\* ------------------------------------------------------------- the router
\* the route is registered for every method
MatchesAnyMethod(req) == req.path = "metrics"

\* Router::new().get("metrics", ...)
Matches(req) == req.method = "GET" /\ req.path = "metrics"

Route(c, req) ==
  /\ phase = "serving"
  /\ pc[c] = "idle"
  /\ request' = [request EXCEPT ![c] = req]
  /\ pc' = [pc EXCEPT ![c] = IF Matches(req) THEN "handler" ELSE "unmatched"]
  /\ UNCHANGED <<phase, registry, snapshot, conn, log, gathers, encodes>>

\* ------------------------------------------------------------ the handler
\* Variants of the handler's steps with one plausible defect each; the
\* properties below are checked to tell the handler from them.
Reverse(s) == [i \in 1..Len(s) |-> s[Len(s) + 1 - i]]

\* the snapshot of an earlier, answered request is served again
HandlerGatherCached(c) ==
  /\ pc[c] = "handler"
  /\ snapshot' = [snapshot EXCEPT ![c] =
                    IF \E d \in Conns : pc[d] = "done"
                    THEN snapshot[CHOOSE d \in Conns : pc[d] = "done"]
                    ELSE gather(registry)]
  /\ gathers' = [gathers EXCEPT ![c] = @ + 1]
  /\ pc' = [pc EXCEPT ![c] = "gathered"]
  /\ UNCHANGED <<phase, registry, request, conn, log, encodes>>

\* the snapshot is kept in one place shared by the handlers in flight
HandlerGatherShared(c) ==
  /\ pc[c] = "handler"
  /\ snapshot' = [d \in Conns |->
                    IF d = c \/ pc[d] = "gathered" THEN gather(registry)
                    ELSE snapshot[d]]
  /\ gathers' = [gathers EXCEPT ![c] = @ + 1]
  /\ pc' = [pc EXCEPT ![c] = "gathered"]
  /\ UNCHANGED <<phase, registry, request, conn, log, encodes>>

\* gathering resets the metrics it has read
HandlerGatherReset(c) ==
  /\ pc[c] = "handler"
  /\ snapshot' = [snapshot EXCEPT ![c] = gather(registry)]
  /\ registry' = [i \in 1..Len(registry) |->
                    [registry[i] EXCEPT !.metric =
                       [j \in 1..Len(registry[i].metric) |->
                          [registry[i].metric[j] EXCEPT !.value = 0]]]]
  /\ gathers' = [gathers EXCEPT ![c] = @ + 1]
  /\ pc' = [pc EXCEPT ![c] = "gathered"]
  /\ UNCHANGED <<phase, request, conn, log, encodes>>

\* registry.gather(), on the handler's clone of the registry
HandlerGather(c) ==
  /\ pc[c] = "handler"
  /\ snapshot' = [snapshot EXCEPT ![c] = gather(registry)]
  /\ gathers' = [gathers EXCEPT ![c] = @ + 1]
  /\ pc' = [pc EXCEPT ![c] = "gathered"]
  /\ UNCHANGED <<phase, registry, request, conn, log, encodes>>

\* the content type is written by hand instead of asked of the encoder
OkResponseHardCoded(cn, buffer) ==
  [status |-> Some(Status_Ok),
   headers |-> {h \in cn.headers : h[1] # "Content-Type"}
               \cup {<<"Content-Type", "text/plain">>},
   body |-> Some(buffer)]

\* the status is set and the buffer is dropped
OkResponseNoBody(cn, buffer) ==
  [status |-> Some(Status_Ok),
   headers |-> {h \in cn.headers : h[1] # "Content-Type"}
               \cup {<<"Content-Type", format_type>>},
   body |-> None]

\* Ok(()) => conn.with_response_header(ContentType, encoder.format_type()).ok(buffer)
OkResponse(cn, buffer) ==
  [status |-> Some(Status_Ok),
   headers |-> {h \in cn.headers : h[1] # "Content-Type"}
               \cup {<<"Content-Type", format_type>>},
   body |-> Some(buffer)]

\* what the encoder wrote before it failed is sent with the 500
ErrResponseLeaky(cn, buffer) ==
  [cn EXCEPT !.status = Some(Status_InternalServerError),
             !.body = Some(buffer)]

\* Err(error) => conn.with_status(Status::InternalServerError)
ErrResponse(cn, buffer) ==
  [cn EXCEPT !.status = Some(Status_InternalServerError)]

\* error!(%error, "Failed to encode Prometheus metrics")
ErrorEvent(error) ==
  [level |-> "ERROR", error |-> error,
   message |-> "Failed to encode Prometheus metrics"]

\* the buffer is kept across requests and not cleared
HandlerEncodeAppend(c) ==
  /\ pc[c] = "gathered"
  /\ LET kept == IF \E d \in Conns : pc[d] = "done" /\ conn[d].body # None
                 THEN conn[CHOOSE d \in Conns :
                             pc[d] = "done" /\ conn[d].body # None].body[1]
                 ELSE <<>>
         r == encode(snapshot[c], kept) IN
       /\ conn' = [conn EXCEPT ![c] = IF r.ok THEN OkResponse(@, r.buffer)
                                             ELSE ErrResponse(@, r.buffer)]
       /\ log' = IF r.ok THEN log ELSE Append(log, ErrorEvent(r.error))
  /\ encodes' = [encodes EXCEPT ![c] = @ + 1]
  /\ pc' = [pc EXCEPT ![c] = "done"]
  /\ UNCHANGED <<phase, registry, request, snapshot, gathers>>

\* the families are encoded in another order than gathered
HandlerEncodeReordered(c) ==
  /\ pc[c] = "gathered"
  /\ LET r == encode(Reverse(snapshot[c]), <<>>) IN
       /\ conn' = [conn EXCEPT ![c] = IF r.ok THEN OkResponse(@, r.buffer)
                                             ELSE ErrResponse(@, r.buffer)]
       /\ log' = IF r.ok THEN log ELSE Append(log, ErrorEvent(r.error))
  /\ encodes' = [encodes EXCEPT ![c] = @ + 1]
  /\ pc' = [pc EXCEPT ![c] = "done"]
  /\ UNCHANGED <<phase, registry, request, snapshot, gathers>>

\* a failed encode is tried again from the gather
HandlerEncodeRetry(c) ==
  /\ pc[c] = "gathered"
  /\ LET r == encode(snapshot[c], <<>>) IN
       /\ conn' = [conn EXCEPT ![c] = IF r.ok THEN OkResponse(@, r.buffer)
                                             ELSE @]
       /\ log' = IF r.ok THEN log ELSE Append(log, ErrorEvent(r.error))
       /\ pc' = [pc EXCEPT ![c] = IF r.ok THEN "done" ELSE "handler"]
  /\ encodes' = [encodes EXCEPT ![c] = @ + 1]
  /\ UNCHANGED <<phase, registry, request, snapshot, gathers>>

\* let mut buffer = Vec::new(); match encoder.encode(&snapshot, &mut buffer)
HandlerEncode(c) ==
  /\ pc[c] = "gathered"
  /\ LET r == encode(snapshot[c], <<>>) IN
       /\ conn' = [conn EXCEPT ![c] = IF r.ok THEN OkResponse(@, r.buffer)
                                             ELSE ErrResponse(@, r.buffer)]
       /\ log' = IF r.ok THEN log ELSE Append(log, ErrorEvent(r.error))
  /\ encodes' = [encodes EXCEPT ![c] = @ + 1]
  /\ pc' = [pc EXCEPT ![c] = "done"]
  /\ UNCHANGED <<phase, registry, request, snapshot, gathers>>

\* ------------------------------------------------------------------- Next
Next ==
  \/ \E collector \in Collectors : register(collector)
  \/ \E i \in 1..MaxFamilies, v \in Values : set(i, v)
  \/ \E i \in 1..MaxFamilies, j \in 1..2, v \in Values \ {0} : inc_by(i, j, v)
  \/ text_format_handler
  \/ \E c \in Conns, m \in Methods, p \in Paths :
       Route(c, [method |-> m, path |-> p])
  \/ \E c \in Conns : HandlerGather(c)
  \/ \E c \in Conns : HandlerEncode(c)

Spec == Init /\ [][Next]_vars

\* ------------------------------------------------------------- properties
Range(s) == {s[i] : i \in 1..Len(s)}
Answered(c) == pc[c] = "done"
Succeeded(c) == Answered(c) /\ encode(snapshot[c], <<>>).ok
Failed(c) == Answered(c) /\ ~encode(snapshot[c], <<>>).ok
ContentTypes(c) == {h[2] : h \in {g \in conn[c].headers : g[1] = "Content-Type"}}

\* C1: a GET to the metrics path whose serialization succeeds is answered
\* with status 200, a Content-Type that is exactly what the encoder's
\* format_type() reports, and a body that is exactly the bytes the encoder
\* produced from the snapshot gathered for that request.
C1_SuccessResponse ==
  \A c \in Conns :
    Succeeded(c) =>
      /\ conn[c].status = Some(200)
      /\ ContentTypes(c) = {format_type}
      /\ conn[c].body = Some(encode(snapshot[c], <<>>).buffer)

C1_Witness ==
  \E c \in Conns :
    /\ Succeeded(c)
    /\ request[c] = [method |-> "GET", path |-> "metrics"]
    /\ encode(snapshot[c], <<>>).buffer # <<>>

\* C2: a GET to the metrics path whose serialization fails records an event
\* at error severity with the failure detail and is answered with status
\* 500 and no body: what the encoder wrote before failing is not sent and
\* no Content-Type header is set.
C2_FailureResponse ==
  \A c \in Conns :
    Failed(c) =>
      /\ conn[c].status = Some(500)
      /\ conn[c].body = None
      /\ ContentTypes(c) = {}
      /\ \E i \in 1..Len(log) :
           /\ log[i].level = "ERROR"
           /\ log[i].error = encode(snapshot[c], <<>>).error

\* the encoder had written a family to the buffer before it failed
C2_Witness ==
  \E c \in Conns :
    /\ Failed(c)
    /\ encode(snapshot[c], <<>>).buffer # <<>>

\* C3: snapshot freshness.  Every gather takes the registry as it is at that
\* instant, whatever earlier requests were answered with, and the response
\* built from it reports every gathered sample with the value it had then.
C3_SnapshotFreshness ==
  [][\A c \in Conns :
       /\ (pc[c] = "handler" /\ pc'[c] = "gathered")
            => snapshot'[c] = registry
       /\ (pc[c] = "gathered" /\ pc'[c] = "done"
             /\ conn'[c].status = Some(200))
            => /\ conn'[c].body # None
               /\ \A i \in 1..Len(snapshot[c]) :
                    \A j \in 1..Len(snapshot[c][i].metric) :
                      SampleLine(snapshot[c][i], snapshot[c][i].metric[j])
                        \in Range(conn'[c].body[1])]_vars

\* two answered requests, my_gauge set from 0 to 5 between their gathers
C3_Witness ==
  \E c, d \in Conns :
    /\ Succeeded(c) /\ Succeeded(d)
    /\ "my_gauge 0" \in Range(conn[c].body[1])
    /\ "my_gauge 5" \in Range(conn[d].body[1])
    /\ snapshot[d] = registry

\* C4: no two concurrent requests interfere.  A step of one invocation
\* leaves every other invocation's snapshot and response alone, an update of
\* the registry leaves every snapshot and response alone, and each response
\* is the encoding of the invocation's own snapshot, taken from the registry
\* at its own gather.
C4_NoInterference ==
  [][/\ \A c \in Conns :
          /\ pc'[c] # pc[c]
               => \A d \in Conns \ {c} :
                    /\ snapshot'[d] = snapshot[d]
                    /\ conn'[d] = conn[d]
                    /\ pc'[d] = pc[d]
          /\ (pc[c] = "handler" /\ pc'[c] = "gathered")
               => snapshot'[c] = gather(registry)
          /\ (pc[c] = "gathered" /\ pc'[c] = "done")
               => /\ snapshot'[c] = snapshot[c]
                  /\ encode(snapshot[c], <<>>).ok
                       => conn'[c].body = Some(encode(snapshot[c], <<>>).buffer)
     /\ registry' # registry => snapshot' = snapshot /\ conn' = conn]_vars

\* two invocations in flight at once, the registry updated between their gathers
C4_Witness ==
  \E c, d \in Conns :
    /\ pc[c] = "gathered" /\ pc[d] = "gathered"
    /\ snapshot[c] # snapshot[d]
    /\ snapshot[d] # registry

\* C5: idempotence.  Two GETs to the metrics path that gathered the same
\* registry contents are answered alike: status, headers and body.
C5_Idempotence ==
  \A c, d \in Conns :
    (Answered(c) /\ Answered(d) /\ snapshot[c] = snapshot[d])
      => conn[c] = conn[d]

C5_Witness ==
  \E c, d \in Conns :
    /\ c # d
    /\ Succeeded(c) /\ Succeeded(d)
    /\ snapshot[c] = snapshot[d]
    /\ snapshot[c] # <<>>

\* C6: only a request whose method is GET and whose path is the metrics path
\* runs the handler; for any other request there is no gather, no encode,
\* and no status, header or body is set.
C6_OnlyGetMetrics ==
  \A c \in Conns :
    /\ pc[c] \in {"handler", "gathered", "done"}
         => request[c].method = "GET" /\ request[c].path = "metrics"
    /\ (pc[c] # "idle"
          /\ ~(request[c].method = "GET" /\ request[c].path = "metrics"))
         => /\ pc[c] = "unmatched"
            /\ gathers[c] = 0 /\ encodes[c] = 0
            /\ snapshot[c] = <<>>
            /\ conn[c] = NewConn

\* a POST to the metrics path left alone beside a GET that was answered
C6_Witness ==
  \E c, d \in Conns :
    /\ pc[c] = "unmatched"
    /\ request[c] = [method |-> "POST", path |-> "metrics"]
    /\ Answered(d)

\* C7: handling a request never changes the registry, on either outcome;
\* the only side effect is a log entry, written on the failure path only.
C7_RegistryUntouched ==
  [][/\ \A c \in Conns :
          pc'[c] # pc[c] =>
            /\ registry' = registry
            /\ conn'[c].status = Some(200) => log' = log
     /\ log' # log
          => \E c \in Conns :
               /\ pc[c] = "gathered" /\ pc'[c] = "done"
               /\ conn'[c].status = Some(500)
               /\ log' = Append(log, ErrorEvent(encode(snapshot[c], <<>>).error))
    ]_vars

\* requests were answered, one of them with a failure, and the registry
\* still holds the value set before them
C7_Witness ==
  /\ \E c \in Conns : Failed(c)
  /\ Len(log) = 1
  /\ \E i \in 1..Len(registry) : registry[i].metric[1].value = 5

\* C8: for a registry holding a single gauge named N with help H and value
\* V, a GET to the metrics path is answered 200 with exactly the lines
\* "# HELP N H", "# TYPE N gauge" and "N V", in that order.
C8_SingleGauge ==
  \A c \in Conns :
    (/\ Answered(c)
     /\ Len(snapshot[c]) = 1
     /\ snapshot[c][1].type = "gauge"
     /\ Len(snapshot[c][1].metric) = 1
     /\ snapshot[c][1].metric[1].label = "")
      => LET N == snapshot[c][1].name
             H == snapshot[c][1].help
             V == ToString(snapshot[c][1].metric[1].value)
         IN /\ conn[c].status = Some(200)
            /\ conn[c].body = Some(<< "# HELP " \o N \o " " \o H,
                                      "# TYPE " \o N \o " gauge",
                                      N \o " " \o V >>)

\* the test's scenario: my_gauge, "Test fixture", 5
C8_Witness ==
  \E c \in Conns :
    /\ Answered(c)
    /\ Len(snapshot[c]) = 1
    /\ conn[c].status = Some(200)
    /\ conn[c].body = Some(<< "# HELP my_gauge Test fixture",
                              "# TYPE my_gauge gauge",
                              "my_gauge 5" >>)

\* the lines a family takes, and the lines before the i-th family
NumLines(mf) == 2 + Len(mf.metric)
RECURSIVE LinesBefore(_, _)
LinesBefore(mfs, i) ==
  IF i <= 1 THEN 0 ELSE LinesBefore(mfs, i - 1) + NumLines(mfs[i - 1])

\* C9: with several families, the body holds every gathered family, in the
\* order gather returned them, each family's HELP, TYPE and sample lines
\* together; nothing is reordered or left out.
C9_FamiliesInOrder ==
  \A c \in Conns :
    Succeeded(c) =>
      LET mfs == snapshot[c]
          body == conn[c].body[1]
      IN /\ conn[c].body # None
         /\ Len(body) = LinesBefore(mfs, Len(mfs) + 1)
         /\ \A i \in 1..Len(mfs) :
              LET at == LinesBefore(mfs, i) IN
                /\ body[at + 1] = HelpLine(mfs[i])
                /\ body[at + 2] = TypeLine(mfs[i])
                /\ \A j \in 1..Len(mfs[i].metric) :
                     body[at + 2 + j] = SampleLine(mfs[i], mfs[i].metric[j])

C9_Witness ==
  \E c \in Conns :
    /\ Succeeded(c)
    /\ Len(snapshot[c]) >= 2
    /\ snapshot[c][1].name = "requests"

\* C10: an invocation on a matched request performs one gather and one
\* encode attempt and ends in one of two outcomes, 200 or 500; a failed
\* encode is not retried, the handler is never stuck, and requests can
\* still be handled after any number of failures.
C10_OneAttempt ==
  \A c \in Conns :
    /\ gathers[c] <= 1 /\ encodes[c] <= 1
    /\ pc[c] = "handler" => gathers[c] = 0 /\ encodes[c] = 0
    /\ pc[c] = "gathered" => gathers[c] = 1 /\ encodes[c] = 0
    /\ pc[c] = "done"
         => /\ gathers[c] = 1 /\ encodes[c] = 1
            /\ conn[c].status \in {Some(200), Some(500)}
            /\ conn[c].status = Some(500) <=> ~encode(snapshot[c], <<>>).ok
    /\ pc[c] \in {"handler", "gathered"}
         => ENABLED (HandlerGather(c) \/ HandlerEncode(c))
    /\ (pc[c] = "idle" /\ phase = "serving")
         => ENABLED Route(c, [method |-> "GET", path |-> "metrics"])

\* a request answered 500 after an earlier one was answered 500
C10_Witness ==
  /\ \A c \in Conns : Answered(c) /\ conn[c].status = Some(500)
  /\ Len(log) = NumConns

=============================================================================
